---- MODULE Spec2Model ----
(***************************************************************************)
(* Model of the AUU reporting backend (src/server.js): the auu_queries     *)
(* table behind the REST endpoints and the persist-then-proxy-then-filter  *)
(* pipeline of POST /api/execute_query.                                    *)
(*                                                                         *)
(* Every route handler is one action (its synchronous part); every         *)
(* callback it registers (sqlite3 completion, https 'response', 'data',    *)
(* 'end', 'error', 'timeout') is an action of its own, because Node runs   *)
(* it in a later turn of the event loop.                                   *)
(***************************************************************************)
EXTENDS Integers, Sequences, FiniteSets, Bags, TLC

(***************************************************************************)
(* Bounds of the model                                                     *)
(***************************************************************************)
MaxReqs == 2
MaxClock == 1
\* longest upstream array of the pipeline specification
MaxElems == 2

(***************************************************************************)
(* JavaScript values of the request fields                                 *)
(***************************************************************************)
\* a field absent from the JSON body (destructuring yields undefined)
Undef == "<undefined>"
\* SQL NULL / JavaScript null
Null == "<null>"

\* JavaScript truthiness of a field value, as tested by !x and x || null
Truthy(v) == v \notin {Undef, Null, ""}

\* x || null
OrNull(v) == IF Truthy(v) THEN v ELSE Null

\* node-sqlite3 binds undefined as NULL and any string as itself
Bind(v) == IF v = Undef THEN Null ELSE v

UserFields == {"user_mail", "user_password", "start_date", "end_date", "parameters", "comments"}

(***************************************************************************)
(* Request bodies the clients send                                         *)
(***************************************************************************)
DateA == "1970-01-01T00:00:00.100Z"
DateB == "1970-01-01T00:00:00.300Z"

BodyA1 ==
    [fqdn |-> "a.com", user_mail |-> "m1", user_password |-> "p1", start_date |-> DateA,
     end_date |-> DateB, parameters |-> "/q1", comments |-> "c1"]

BodyA2 ==
    [fqdn |-> "a.com", user_mail |-> "m2", user_password |-> "p2", start_date |-> "",
     end_date |-> Undef, parameters |-> "/q2", comments |-> "c2"]

BodyB1 ==
    [fqdn |-> "b.com", user_mail |-> "m1", user_password |-> "p1", start_date |-> DateA,
     end_date |-> DateB, parameters |-> "/q1", comments |-> Undef]

RequiredFields == {"fqdn", "user_mail", "user_password", "parameters"}

SaveBodies == {BodyA1, BodyA2, BodyB1, [BodyA1 EXCEPT !.fqdn = ""]}

ExecBodies == {BodyA1, BodyA2, [BodyA1 EXCEPT !.user_password = Undef]}

DeleteFqdns == {"a.com", "b.com"}

GetFqdns == {"a.com", "b.com", Undef}

(***************************************************************************)
(* The auu_queries table: a sequence of rows (rowid order)                 *)
(***************************************************************************)
HasRow(s, f) == \E i \in 1..Len(s) : s[i].fqdn = f

RowsOf(s, f) == SelectSeq(s, LAMBDA row : row.fqdn = f)

\* Upsert as INSERT OR REPLACE: the row in conflict is deleted and inserted anew
UpsertReplaces(s, e, now) ==
    Append(SelectSeq(s, LAMBDA row : row.fqdn # e.fqdn),
           [fqdn |-> e.fqdn, user_mail |-> e.user_mail,
            user_password |-> e.user_password, start_date |-> e.start_date,
            end_date |-> e.end_date, parameters |-> e.parameters,
            comments |-> e.comments, created_at |-> now, last_updated |-> now])

\* Upsert without the conflict clause on a table without the primary key
UpsertAlwaysInserts(s, e, now) ==
    Append(s, [fqdn |-> e.fqdn, user_mail |-> e.user_mail,
               user_password |-> e.user_password, start_date |-> e.start_date,
               end_date |-> e.end_date, parameters |-> e.parameters,
               comments |-> e.comments, created_at |-> now, last_updated |-> now])

\* INSERT ... ON CONFLICT(fqdn) DO UPDATE SET ... (the statement of both
\* save_query_data and execute_query); e holds the seven bound parameters
Upsert(s, e, now) ==
    IF HasRow(s, e.fqdn)
    THEN [i \in 1..Len(s) |->
            IF s[i].fqdn = e.fqdn
            THEN [s[i] EXCEPT !.user_mail = e.user_mail,
                              !.user_password = e.user_password,
                              !.start_date = e.start_date,
                              !.end_date = e.end_date,
                              !.parameters = e.parameters,
                              !.comments = e.comments,
                              !.last_updated = now]
            ELSE s[i]]
    ELSE Append(s, [fqdn |-> e.fqdn, user_mail |-> e.user_mail,
                    user_password |-> e.user_password, start_date |-> e.start_date,
                    end_date |-> e.end_date, parameters |-> e.parameters,
                    comments |-> e.comments, created_at |-> now, last_updated |-> now])

\* DELETE with a pattern that matches every fqdn
DeleteRowsMatchesAll(s, f) == SelectSeq(s, LAMBDA row : FALSE)

\* DELETE FROM auu_queries WHERE fqdn = ?
DeleteRows(s, f) == SelectSeq(s, LAMBDA row : row.fqdn # f)

\* this.changes of the DELETE
Changes(s, f) == Len(s) - Len(DeleteRows(s, f))

\* the parameters save_query_data binds
SaveParams(b) ==
    [fqdn |-> b.fqdn, user_mail |-> Bind(b.user_mail), user_password |-> Bind(b.user_password),
     start_date |-> Bind(b.start_date), end_date |-> Bind(b.end_date),
     parameters |-> Bind(b.parameters), comments |-> Bind(b.comments)]

\* the parameters execute_query binds
ExecParams(b) ==
    [fqdn |-> b.fqdn, user_mail |-> Bind(b.user_mail), user_password |-> Bind(b.user_password),
     start_date |-> OrNull(b.start_date), end_date |-> OrNull(b.end_date),
     parameters |-> Bind(b.parameters), comments |-> OrNull(b.comments)]

\* a stub that does not echo the fqdn
StubEntryNoEcho(f) ==
    [fqdn |-> "", user_mail |-> "", user_password |-> "", start_date |-> "",
     end_date |-> "", parameters |-> "", comments |-> ""]

\* the object GET /api/query_data answers when no row matches
StubEntry(f) ==
    [fqdn |-> f, user_mail |-> "", user_password |-> "", start_date |-> "",
     end_date |-> "", parameters |-> "", comments |-> ""]

\* the bytes of the fqdns that occur, for the comparison of ORDER BY
CharCodes ==
    ("a.com" :> <<97, 46, 99, 111, 109>>) @@ ("b.com" :> <<98, 46, 99, 111, 109>>) @@
    ("a.co" :> <<97, 46, 99, 111>>) @@ ("B.com" :> <<66, 46, 99, 111, 109>>)

\* memcmp order of two byte strings (the BINARY collation of SQLite): the first
\* differing byte decides, and a proper prefix comes first
RECURSIVE BytesLess(_, _)
BytesLess(x, y) ==
    IF y = <<>> THEN FALSE
    ELSE IF x = <<>> THEN TRUE
    ELSE IF Head(x) # Head(y) THEN Head(x) < Head(y)
    ELSE BytesLess(Tail(x), Tail(y))

FqdnLess(f, g) == BytesLess(CharCodes[f], CharCodes[g])

\* a sorted sequence of fqdns with one more
RECURSIVE SortedInsert(_, _)
SortedInsert(sorted, f) ==
    IF sorted = <<>> THEN <<f>>
    ELSE IF FqdnLess(f, Head(sorted)) THEN <<f>> \o sorted
    ELSE <<Head(sorted)>> \o SortedInsert(Tail(sorted), f)

RECURSIVE SortFqdns(_)
SortFqdns(fs) ==
    IF fs = <<>> THEN <<>> ELSE SortedInsert(SortFqdns(Tail(fs)), Head(fs))

\* SELECT fqdn FROM auu_queries, in rowid order
SelectFqdnUnordered(s) == [i \in 1..Len(s) |-> [fqdn |-> s[i].fqdn]]

\* SELECT fqdn FROM auu_queries ORDER BY fqdn: the rows handed to the callback
SelectFqdn(s) ==
    LET sorted == SortFqdns([i \in 1..Len(s) |-> s[i].fqdn])
    IN  [i \in 1..Len(sorted) |-> [fqdn |-> sorted[i]]]

(***************************************************************************)
(* Upstream response texts, as sequences of JSON tokens                    *)
(***************************************************************************)
LB == [k |-> "[", tsType |-> "none", ts |-> 0]
RB == [k |-> "]", tsType |-> "none", ts |-> 0]
Junk == [k |-> "<html>", tsType |-> "none", ts |-> 0]
\* an object whose timestamp_epoch_ms is the number n
Obj(n) == [k |-> "{}", tsType |-> "number", ts |-> n]

\* an object without timestamp_epoch_ms
ObjNoTs == [k |-> "{}", tsType |-> "undefined", ts |-> 0]
\* an object whose timestamp_epoch_ms is the string "n"
ObjStrTs(n) == [k |-> "{}", tsType |-> "string", ts |-> n]
\* the array element null
NullElem == [k |-> "null", tsType |-> "none", ts |-> 0]

\* what an upstream host sends: the chunks of its response body, in order
UpstreamTexts == {<< <<LB, Obj(50)>>, <<Obj(200), RB>> >>, << <<LB, Junk>> >>}

\* JSON.parse succeeds: the text is one object or a bracketed list of objects
IsJSON(d) ==
    \/ Len(d) = 1 /\ d[1].k = "{}"
    \/ /\ Len(d) >= 2
       /\ d[1].k = "["
       /\ d[Len(d)].k = "]"
       /\ \A i \in 2..(Len(d) - 1) : d[i].k \in {"{}", "null"}

\* JSON.parse(data), for a text with IsJSON
ParseJSON(d) ==
    IF Len(d) = 1
    THEN [isArray |-> FALSE, elems |-> d]
    ELSE [isArray |-> TRUE, elems |-> SubSeq(d, 2, Len(d) - 1)]

\* new Date(s).getTime(): epoch milliseconds, or NaN for an unparsable string
GetTime(s) ==
    IF s = DateA THEN [nan |-> FALSE, ms |-> 100]
    ELSE IF s = DateB THEN [nan |-> FALSE, ms |-> 300]
    ELSE [nan |-> TRUE, ms |-> 0]

\* the predicate of parsedData.filter(...)
InRange(entry, startEpoch, endEpoch) ==
    /\ entry.tsType = "number"
    /\ ~startEpoch.nan /\ entry.ts >= startEpoch.ms
    /\ ~endEpoch.nan /\ entry.ts <= endEpoch.ms

\* FilteredData filtering as soon as one of the bounds is given
FilteredDataEitherBound(parsedData, start_date, end_date) ==
    IF parsedData.isArray /\ (Truthy(start_date) \/ Truthy(end_date))
    THEN [parsedData EXCEPT !.elems =
            SelectSeq(parsedData.elems,
                      LAMBDA entry : InRange(entry, GetTime(start_date), GetTime(end_date)))]
    ELSE parsedData

\* the filter callback reads entry.timestamp_epoch_ms of every element up to
\* the end or to the first null, where the read throws a TypeError
FilterThrows(parsedData, start_date, end_date) ==
    /\ parsedData.isArray /\ Truthy(start_date) /\ Truthy(end_date)
    /\ \E i \in 1..Len(parsedData.elems) : parsedData.elems[i].k = "null"

\* filteredData of the 'end' handler
FilteredData(parsedData, start_date, end_date) ==
    IF parsedData.isArray /\ Truthy(start_date) /\ Truthy(end_date)
    THEN [parsedData EXCEPT !.elems =
            SelectSeq(parsedData.elems,
                      LAMBDA entry : InRange(entry, GetTime(start_date), GetTime(end_date)))]
    ELSE parsedData

(***************************************************************************)
(* State                                                                   *)
(***************************************************************************)
VARIABLES
    store,   \* the rows of auu_queries
    clock,   \* CURRENT_TIMESTAMP
    alive,   \* the Node process is running (no uncaught exception so far)
    reqs,    \* the HTTP requests received so far: a bag of request records
    dbState  \* the sqlite3 connection: open, failed (the open failed), closed

vars == <<store, clock, alive, reqs, dbState>>

\* A request as its handler and callbacks see it (req, res and the closure):
\*   kind      the route
\*   body      req.body (req.query / req.params for get and delete)
\*   db        the statement handed to db.run / db.get: none, pending, ok, failed
\*   up        the outbound https request: none, connecting, receiving, ended,
\*             errored, hangup (destroyed before a response; 'error' to come),
\*             destroyed (destroyed after the response started), aborted
\*   rem       the chunks of the upstream body still to arrive
\*   data      the chunks accumulated by the 'data' handler (dropped with the
\*             closure once the response can deliver nothing more)
\*   issued    number of calls of https.request(...).end()
\*   timedOut  the 'timeout' event has fired
\*   attempts  number of calls of res.json / res.status(...).json
\*   resp      the responses that went out to the client
\*   overlap   history of a delete: its statement ran while the save of an
\*             execute_query for the same fqdn was still pending
\*   wrote     the lines the handler and the callbacks of the request have
\*             appended to the log file, those that interpolate a value of
\*             the request (a line of fixed text, of the upstream response
\*             or of an upstream error carries none and is not kept)
NewReq(kind, body) ==
    [kind |-> kind, body |-> body, db |-> "none", up |-> "none", rem |-> <<>>,
     data |-> <<>>, issued |-> 0, timedOut |-> FALSE, attempts |-> 0, resp |-> <<>>,
     overlap |-> FALSE, wrote |-> {}]

\* a line appended to the log file: the logToFile call it comes from, by its
\* line in the source, the values of the request it interpolates and the
\* Authorization header it shows, if any
AuthLine(n, vals, auth) == [line |-> n, vals |-> vals, auth |-> auth]

\* a line without an Authorization header
Line(n, vals) == AuthLine(n, vals, <<>>)

\* logToFile called for request q
Logs(q, lines) == [q EXCEPT !.wrote = @ \cup lines]

\* Buffer.from(mail + ':' + password).toString('base64') behind 'Basic '
Basic(mail, password) == <<"Basic base64", mail, password>>

\* the log line of a statement that failed
ErrLine(n, q) == Line(n, <<q.body.fqdn, "SQLITE_ERROR">>)

\* the requests received so far
Requests == BagToSet(reqs)

\* reqs after a request arrived
Received(q) == reqs (+) SetToBag({q})

\* reqs after a step of request q that leaves it as q2
Stepped(q, q2) == (reqs (-) SetToBag({q})) (+) SetToBag({q2})

\* res.headersSent
HeadersSent(q) == q.resp # <<>>

\* res.status(status).json(body): the first call sends the response; a later
\* call throws ERR_HTTP_HEADERS_SENT and sends nothing
Respond(q, status, body) ==
    IF HeadersSent(q)
    THEN [q EXCEPT !.attempts = @ + 1]
    ELSE [q EXCEPT !.attempts = @ + 1, !.resp = <<[status |-> status, body |-> body]>>]

StoreError == [error |-> "SQLITE_ERROR"]

\* a row left in the database file by an earlier run of the server
OldRow ==
    [fqdn |-> "a.com", user_mail |-> "m0", user_password |-> "p0", start_date |-> Null,
     end_date |-> Null, parameters |-> "/q0", comments |-> "c0",
     created_at |-> 0, last_updated |-> 0]

Init ==
    /\ store \in {<<>>, <<OldRow>>}
    /\ clock = 0
    /\ alive = TRUE
    /\ reqs = EmptyBag
    /\ dbState = "open"

\* time passes
Tick ==
    /\ alive
    /\ clock < MaxClock
    /\ clock' = clock + 1
    /\ UNCHANGED <<store, alive, reqs, dbState>>

\* the server accepts one more request
Arrives == alive /\ BagCardinality(reqs) < MaxReqs

(***************************************************************************)
(* POST /api/save_query_data                                               *)
(***************************************************************************)
\* the request once the handler has logged it
SaveReceived(b) == Logs(NewReq("save", b), {Line(110, <<b.fqdn, b.user_mail, b.parameters>>)})

\* the handler without the test of fqdn
SaveQueryDataUnchecked(b) ==
    /\ Arrives
    /\ reqs' = Received([SaveReceived(b) EXCEPT !.db = "pending"])
    /\ UNCHANGED <<store, clock, alive, dbState>>

SaveQueryData(b) ==
    /\ Arrives
    /\ reqs' = Received(IF ~Truthy(b.fqdn)
                        THEN Respond(SaveReceived(b), 400, [error |-> "FQDN is required"])
                        ELSE [SaveReceived(b) EXCEPT !.db = "pending"])
    /\ UNCHANGED <<store, clock, alive, dbState>>

\* the callback of db.run, together with the statement it reports on
SaveCallback(q, err) ==
    /\ alive
    /\ q.kind = "save"
    /\ q.db = "pending"
    /\ dbState # "open" => err
    /\ IF err
       THEN /\ store' = store
            /\ reqs' = Stepped(q, Respond(Logs([q EXCEPT !.db = "failed"], {ErrLine(131, q)}),
                                          500, StoreError))
       ELSE /\ store' = Upsert(store, SaveParams(q.body), clock)
            /\ reqs' = Stepped(q, Respond(Logs([q EXCEPT !.db = "ok"], {Line(134, <<q.body.fqdn>>)}), 200,
                                          [message |-> "Query data saved successfully"]))
    /\ UNCHANGED <<clock, alive, dbState>>

(***************************************************************************)
(* DELETE /api/query_data/:fqdn                                            *)
(***************************************************************************)
DeleteQueryData(f) ==
    /\ Arrives
    /\ reqs' = Received([NewReq("delete", [fqdn |-> f]) EXCEPT !.db = "pending"])
    /\ UNCHANGED <<store, clock, alive, dbState>>

\* an execute_query for fqdn f has handed its save to db.run and the
\* statement has not run yet
SavePending(f) ==
    \E e \in Requests : e.kind = "execute" /\ e.body.fqdn = f /\ e.db = "pending"

DeleteCallback(q, err) ==
    /\ alive
    /\ q.kind = "delete"
    /\ q.db = "pending"
    /\ dbState # "open" => err
    /\ IF err
       THEN /\ store' = store
            /\ reqs' = Stepped(q, Respond(Logs([q EXCEPT !.db = "failed"], {ErrLine(144, q)}),
                                          500, StoreError))
       ELSE /\ store' = DeleteRows(store, q.body.fqdn)
            /\ reqs' = Stepped(q, IF Changes(store, q.body.fqdn) = 0
                                  THEN Respond(Logs([q EXCEPT !.db = "ok"], {Line(148, <<q.body.fqdn>>)}), 404,
                                               [error |-> "FQDN not found"])
                                  ELSE Respond(Logs([q EXCEPT !.db = "ok",
                                                              !.overlap = SavePending(q.body.fqdn)],
                                                    {Line(151, <<q.body.fqdn>>)}),
                                               200,
                                               [message |-> "FQDN entry deleted successfully"]))
    /\ UNCHANGED <<clock, alive, dbState>>

(***************************************************************************)
(* GET /api/query_data                                                     *)
(***************************************************************************)
GetQueryData(f) ==
    /\ Arrives
    /\ reqs' = Received(IF ~Truthy(f)
                        THEN Respond(NewReq("get", [fqdn |-> f]), 400,
                                     [error |-> "FQDN is required"])
                        ELSE [NewReq("get", [fqdn |-> f]) EXCEPT !.db = "pending"])
    /\ UNCHANGED <<store, clock, alive, dbState>>

\* the body GET /api/query_data answers from the table
GetBody(s, f) == IF HasRow(s, f) THEN RowsOf(s, f)[1] ELSE StubEntry(f)

GetCallback(q, err) ==
    /\ alive
    /\ q.kind = "get"
    /\ q.db = "pending"
    /\ dbState # "open" => err
    /\ reqs' = Stepped(q, IF err
                          THEN Respond(Logs([q EXCEPT !.db = "failed"], {ErrLine(85, q)}), 500, StoreError)
                          ELSE Respond([q EXCEPT !.db = "ok"], 200, GetBody(store, q.body.fqdn)))
    /\ UNCHANGED <<store, clock, alive, dbState>>

(***************************************************************************)
(* GET /api/fqdns                                                          *)
(***************************************************************************)
FqdnsQuery ==
    /\ Arrives
    /\ reqs' = Received([NewReq("fqdns", [fqdn |-> Undef]) EXCEPT !.db = "pending"])
    /\ UNCHANGED <<store, clock, alive, dbState>>

\* the callback of db.all, together with the statement it reports on
FqdnsCallback(q, err) ==
    /\ alive
    /\ q.kind = "fqdns"
    /\ q.db = "pending"
    /\ dbState # "open" => err
    /\ reqs' = Stepped(q, IF err
                          THEN Respond([q EXCEPT !.db = "failed"], 500, StoreError)
                          ELSE Respond([q EXCEPT !.db = "ok"], 200,
                                       [rows |-> SelectFqdn(store)]))
    /\ UNCHANGED <<store, clock, alive, dbState>>

(***************************************************************************)
(* POST /api/execute_query                                                 *)
(***************************************************************************)
\* the options logged as they are
OptionsLine(b) == AuthLine(199, <<b.fqdn, b.parameters>>, Basic(b.user_mail, b.user_password))

\* the copy of the options logged with its Authorization header replaced
SafeOptionsLine(b) == AuthLine(205, <<b.fqdn, b.parameters>>, <<"[REDACTED]">>)

\* the lines the handler logs for a valid body
ExecuteLines(b) ==
    {Line(161, <<b.fqdn, b.user_mail, b.parameters>>), OptionsLine(b), SafeOptionsLine(b)}

\* the test of the required fields, without user_password
ExecuteValidNoPassword(b) ==
    Truthy(b.fqdn) /\ Truthy(b.user_mail) /\ Truthy(b.parameters)

\* the test of the required fields
ExecuteValid(b) ==
    Truthy(b.fqdn) /\ Truthy(b.user_mail) /\ Truthy(b.user_password) /\ Truthy(b.parameters)

\* The handler: validates, hands the upsert to db.run (which returns at once;
\* the statement runs later) and calls https.request(...).end().
ExecuteQuery(b) ==
    /\ Arrives
    /\ reqs' = Received(IF ~ExecuteValid(b)
                        THEN Respond(Logs(NewReq("execute", b),
                                          {Line(161, <<b.fqdn, b.user_mail, b.parameters>>)}),
                                     400,
                                     [error |-> "Missing required fields"])
                        ELSE [Logs(NewReq("execute", b), ExecuteLines(b))
                                EXCEPT !.db = "pending", !.issued = @ + 1,
                                       !.up = "connecting"])
    /\ UNCHANGED <<store, clock, alive, dbState>>

\* ExecuteSaveCallback answering a store failure the way save_query_data does
ExecuteSaveCallbackAnswers(q, err) ==
    /\ alive
    /\ q.kind = "execute"
    /\ q.db = "pending"
    /\ dbState # "open" => err
    /\ IF err
       THEN /\ store' = store
            /\ reqs' = Stepped(q, Respond(Logs([q EXCEPT !.db = "failed"], {ErrLine(182, q)}),
                                          500, StoreError))
       ELSE /\ store' = Upsert(store, ExecParams(q.body), clock)
            /\ reqs' = Stepped(q, Logs([q EXCEPT !.db = "ok"], {Line(184, <<q.body.fqdn>>)}))
    /\ UNCHANGED <<clock, alive, dbState>>

\* a statement of execute_query that only updates the row of the fqdn
ExecuteSaveCallbackUpdatesOnly(q, err) ==
    /\ alive
    /\ q.kind = "execute"
    /\ q.db = "pending"
    /\ dbState # "open" => err
    /\ IF err
       THEN /\ store' = store
            /\ reqs' = Stepped(q, Logs([q EXCEPT !.db = "failed"], {ErrLine(182, q)}))
       ELSE /\ store' = IF HasRow(store, q.body.fqdn)
                        THEN Upsert(store, ExecParams(q.body), clock)
                        ELSE store
            /\ reqs' = Stepped(q, Logs([q EXCEPT !.db = "ok"], {Line(184, <<q.body.fqdn>>)}))
    /\ UNCHANGED <<clock, alive, dbState>>

\* the callback of the db.run of execute_query, together with its statement:
\* it logs the outcome and never touches res
ExecuteSaveCallback(q, err) ==
    /\ alive
    /\ q.kind = "execute"
    /\ q.db = "pending"
    /\ dbState # "open" => err
    /\ IF err
       THEN /\ store' = store
            /\ reqs' = Stepped(q, Logs([q EXCEPT !.db = "failed"], {ErrLine(182, q)}))
       ELSE /\ store' = Upsert(store, ExecParams(q.body), clock)
            /\ reqs' = Stepped(q, Logs([q EXCEPT !.db = "ok"], {Line(184, <<q.body.fqdn>>)}))
    /\ UNCHANGED <<clock, alive, dbState>>

\* the callback of https.request: the status line and headers have arrived;
\* text is the body the upstream host is going to send
ApiResponse(q, text) ==
    /\ alive
    /\ q.up = "connecting"
    /\ reqs' = Stepped(q, [q EXCEPT !.up = "receiving", !.rem = text, !.data = <<>>])
    /\ UNCHANGED <<store, clock, alive, dbState>>

\* a 'data' listener that keeps the last chunk only
ApiDataOverwrites(q) ==
    /\ alive
    /\ q.up = "receiving"
    /\ q.rem # <<>>
    /\ reqs' = Stepped(q, [q EXCEPT !.data = Head(q.rem), !.rem = Tail(@)])
    /\ UNCHANGED <<store, clock, alive, dbState>>

\* apiRes.on('data'): the next chunk arrives
ApiData(q) ==
    /\ alive
    /\ q.up = "receiving"
    /\ q.rem # <<>>
    /\ reqs' = Stepped(q, [q EXCEPT !.data = @ \o Head(q.rem), !.rem = Tail(@)])
    /\ UNCHANGED <<store, clock, alive, dbState>>

\* the response the 'end' handler sends for the accumulated data: the catch
\* clause answers whatever is thrown in the try block, by JSON.parse or by
\* the filter
EndResponse(q) ==
    IF IsJSON(q.data) /\ ~FilterThrows(ParseJSON(q.data), q.body.start_date, q.body.end_date)
    THEN [status |-> 200,
          body |-> [json |-> FilteredData(ParseJSON(q.data), q.body.start_date, q.body.end_date)]]
    ELSE [status |-> 500,
          body |-> [error |-> "Failed to parse API response", raw |-> q.data]]

\* apiRes.on('end'): the upstream response is complete
ApiEnd(q) ==
    /\ alive
    /\ q.up = "receiving"
    /\ q.rem = <<>>
    /\ alive' = ~HeadersSent(q)
    /\ reqs' = Stepped(q, Respond([q EXCEPT !.up = "ended"],
                                  EndResponse(q).status, EndResponse(q).body))
    /\ UNCHANGED <<store, clock, dbState>>

\* an 'error' listener that tries the request again
OnErrorRetries(q, message) ==
    IF q.issued < 2
    THEN [q EXCEPT !.issued = @ + 1, !.up = "connecting"]
    ELSE Respond(q, 500, [error |-> message])

\* the listener of apiReq.on('error')
OnError(q, message) == Respond(q, 500, [error |-> message])

\* a 'timeout' listener that only destroys the request and leaves the answer
\* to the 'error' listener
OnTimeoutDestroysOnly(q) ==
    [q EXCEPT !.timedOut = TRUE,
              !.up = IF q.up = "connecting" THEN "hangup" ELSE "destroyed",
              !.rem = <<>>, !.data = <<>>]

\* the listener of apiReq.on('timeout'): apiReq.destroy(), then 408.
\* Destroying a request that has no response yet makes Node emit 'error'
\* (socket hang up) on it afterwards; destroying it later aborts the response.
OnTimeout(q) ==
    Respond([q EXCEPT !.timedOut = TRUE,
                      !.up = IF q.up = "connecting" THEN "hangup" ELSE "destroyed",
                      !.rem = <<>>, !.data = <<>>],
            408, [error |-> "Request timeout"])

\* 'error' on apiReq: the connection was refused or reset, the name did not
\* resolve, or the socket failed in the middle of the body
ApiError(q) ==
    /\ alive
    /\ q.up \in {"connecting", "receiving"}
    /\ alive' = ~HeadersSent(q)
    /\ reqs' = Stepped(q, OnError([q EXCEPT !.up = "errored", !.rem = <<>>, !.data = <<>>],
                                  "ECONNRESET"))
    /\ UNCHANGED <<store, clock, dbState>>

\* 'timeout' on apiReq: the socket was idle for the timeout of the options
ApiTimeout(q) ==
    /\ alive
    /\ q.up \in {"connecting", "receiving"}
    /\ alive' = ~HeadersSent(q)
    /\ reqs' = Stepped(q, OnTimeout(q))
    /\ UNCHANGED <<store, clock, dbState>>

\* 'error' (socket hang up) on an apiReq that was destroyed before its response:
\* the 'error' listener runs after the 'timeout' listener has answered, its
\* res.json throws inside the event listener and nothing catches it
ApiHangUp(q) ==
    /\ alive
    /\ q.up = "hangup"
    /\ alive' = ~HeadersSent(q)
    /\ reqs' = Stepped(q, OnError([q EXCEPT !.up = "errored"], "socket hang up"))
    /\ UNCHANGED <<store, clock, dbState>>

\* the upstream host closes the connection in the middle of the body: Node
\* emits 'aborted' on apiRes, for which no listener is registered, and no 'end'
ApiAborted(q) ==
    /\ alive
    /\ q.up = "receiving"
    /\ q.rem # <<>>
    /\ reqs' = Stepped(q, [q EXCEPT !.up = "aborted", !.rem = <<>>, !.data = <<>>])
    /\ UNCHANGED <<store, clock, alive, dbState>>

(***************************************************************************)
(* GET /api/health, SIGINT                                                 *)
(***************************************************************************)
\* the handler: it answers the same body whatever the connection is
Health ==
    /\ Arrives
    /\ reqs' = Received(Respond(NewReq("health", [fqdn |-> Undef]), 200,
                                [status |-> "OK", timestamp |-> clock,
                                 database |-> "Connected"]))
    /\ UNCHANGED <<store, clock, alive, dbState>>

\* the listener of SIGINT calls db.close; with no statement pending the
\* connection is closed at once and the callback of close is queued (a SIGINT
\* that finds statements pending is not modelled)
Sigint ==
    /\ alive
    /\ dbState # "closed"
    /\ \A q \in Requests : q.db # "pending"
    /\ dbState' = "closed"
    /\ UNCHANGED <<store, clock, alive, reqs>>

\* the callback of db.close: process.exit(0)
CloseCallback ==
    /\ alive
    /\ dbState = "closed"
    /\ alive' = FALSE
    /\ UNCHANGED <<store, clock, reqs, dbState>>

(***************************************************************************)
(* Specification                                                           *)
(***************************************************************************)
Next ==
    \/ Tick
    \/ \E b \in SaveBodies : SaveQueryData(b)
    \/ \E f \in DeleteFqdns : DeleteQueryData(f)
    \/ \E f \in GetFqdns : GetQueryData(f)
    \/ \E b \in ExecBodies : ExecuteQuery(b)
    \/ \E q \in Requests, err \in BOOLEAN : SaveCallback(q, err)
    \/ \E q \in Requests, err \in BOOLEAN : DeleteCallback(q, err)
    \/ \E q \in Requests, err \in BOOLEAN : GetCallback(q, err)
    \/ \E q \in Requests, err \in BOOLEAN : ExecuteSaveCallback(q, err)
    \/ \E q \in Requests, text \in UpstreamTexts : ApiResponse(q, text)
    \/ \E q \in Requests : ApiData(q)
    \/ \E q \in Requests : ApiEnd(q)
    \/ \E q \in Requests : ApiError(q)
    \/ \E q \in Requests : ApiTimeout(q)
    \/ \E q \in Requests : ApiHangUp(q)
    \/ \E q \in Requests : ApiAborted(q)

Spec == Init /\ [][Next]_vars

\* the event loop runs every callback that is ready and every timer that is
\* due
SpecLive == Spec /\ WF_vars(Next)

(***************************************************************************)
(* Only execute_query requests, with every combination of absent, empty    *)
(* and present required fields                                             *)
(***************************************************************************)
FieldChoices == [RequiredFields -> {"absent", "empty", "present"}]

\* BodyA1 with its required fields absent, emptied or kept as c says
BodyWith(c) ==
    [k \in DOMAIN BodyA1 |->
        IF k \notin RequiredFields \/ c[k] = "present" THEN BodyA1[k]
        ELSE IF c[k] = "absent" THEN Undef ELSE ""]

NextExec ==
    \/ Tick
    \/ \E c \in FieldChoices : ExecuteQuery(BodyWith(c))
    \/ \E q \in Requests, err \in BOOLEAN : ExecuteSaveCallback(q, err)
    \/ \E q \in Requests, text \in UpstreamTexts : ApiResponse(q, text)
    \/ \E q \in Requests : ApiData(q)
    \/ \E q \in Requests : ApiEnd(q)
    \/ \E q \in Requests : ApiError(q)
    \/ \E q \in Requests : ApiTimeout(q)
    \/ \E q \in Requests : ApiHangUp(q)
    \/ \E q \in Requests : ApiAborted(q)

SpecExec == Init /\ [][NextExec]_vars

(***************************************************************************)
(* The requests that reach the table, with more fqdns and with rows left   *)
(* by an earlier run in an order that is not the sorted one                *)
(***************************************************************************)
OldRowB == [OldRow EXCEPT !.fqdn = "b.com"]

BodyC1 == [BodyA1 EXCEPT !.fqdn = "a.co"]

BodyD1 == [BodyA1 EXCEPT !.fqdn = "B.com"]

StoreBodies == {BodyA2, BodyC1, BodyD1, [BodyA1 EXCEPT !.fqdn = ""], [BodyA1 EXCEPT !.fqdn = Undef]}

InitStore ==
    /\ store \in {<<>>, <<OldRowB, OldRow>>}
    /\ clock = 0
    /\ alive = TRUE
    /\ reqs = EmptyBag
    /\ dbState = "open"

NextStore ==
    \/ Tick
    \/ \E b \in StoreBodies : SaveQueryData(b)
    \/ \E f \in DeleteFqdns : DeleteQueryData(f)
    \/ \E b \in ExecBodies : ExecuteQuery(b)
    \/ FqdnsQuery
    \/ \E q \in Requests, err \in BOOLEAN : SaveCallback(q, err)
    \/ \E q \in Requests, err \in BOOLEAN : DeleteCallback(q, err)
    \/ \E q \in Requests, err \in BOOLEAN : ExecuteSaveCallback(q, err)
    \/ \E q \in Requests, err \in BOOLEAN : FqdnsCallback(q, err)

SpecStore == InitStore /\ [][NextStore]_vars

(***************************************************************************)
(* One execute_query at a time, with every combination of date bounds and  *)
(* with upstream arrays of every shape up to MaxElems elements             *)
(***************************************************************************)
DateChoices == {DateA, DateB, "", Undef, "not-a-date"}

PipelineBodies ==
    {[BodyA1 EXCEPT !.start_date = s, !.end_date = e] : s \in DateChoices, e \in DateChoices}

Elems == {Obj(99), Obj(100), Obj(200), Obj(300), Obj(301), ObjNoTs, ObjStrTs(200), NullElem}

Arrays == UNION {[1..n -> Elems] : n \in 0..MaxElems}

PipelineTexts ==
    {<< <<LB>> \o a, <<RB>> >> : a \in Arrays}
        \cup {<< <<Obj(200)>> >>, << <<LB, Obj(50)>>, <<Junk>> >>, << <<Junk>>, <<RB>> >>,
              << <<LB>>, <<Obj(200)>> >>, << >>}

NextPipeline ==
    \/ \E b \in PipelineBodies : reqs = EmptyBag /\ ExecuteQuery(b)
    \/ \E q \in Requests, err \in BOOLEAN : ExecuteSaveCallback(q, err)
    \/ \E q \in Requests, text \in PipelineTexts : ApiResponse(q, text)
    \/ \E q \in Requests : ApiData(q)
    \/ \E q \in Requests : ApiEnd(q)
    \/ \E q \in Requests : ApiError(q)
    \/ \E q \in Requests : ApiTimeout(q)
    \/ \E q \in Requests : ApiHangUp(q)
    \/ \E q \in Requests : ApiAborted(q)

SpecPipeline == Init /\ [][NextPipeline]_vars

(***************************************************************************)
(* The server with a database that opened or failed to open, and its       *)
(* shutdown                                                                *)
(***************************************************************************)
InitHealth ==
    /\ store \in {<<>>, <<OldRow>>}
    /\ clock = 0
    /\ alive = TRUE
    /\ reqs = EmptyBag
    /\ dbState \in {"open", "failed"}

NextHealth ==
    \/ Tick
    \/ Health
    \/ Sigint
    \/ CloseCallback
    \/ \E b \in SaveBodies : SaveQueryData(b)
    \/ \E f \in GetFqdns : GetQueryData(f)
    \/ \E q \in Requests, err \in BOOLEAN : SaveCallback(q, err)
    \/ \E q \in Requests, err \in BOOLEAN : GetCallback(q, err)

SpecHealth == InitHealth /\ [][NextHealth]_vars

(***************************************************************************)
(* Requests that differ in user_password only                              *)
(***************************************************************************)
LogBodies == {BodyA1, [BodyA1 EXCEPT !.user_password = "p2"]}

NextLog ==
    \/ \E b \in LogBodies : SaveQueryData(b)
    \/ \E b \in LogBodies : ExecuteQuery(b)
    \/ \E q \in Requests, err \in BOOLEAN : SaveCallback(q, err)
    \/ \E q \in Requests, err \in BOOLEAN : ExecuteSaveCallback(q, err)
    \/ \E q \in Requests, text \in UpstreamTexts : ApiResponse(q, text)
    \/ \E q \in Requests : ApiData(q)
    \/ \E q \in Requests : ApiEnd(q)
    \/ \E q \in Requests : ApiError(q)
    \/ \E q \in Requests : ApiTimeout(q)
    \/ \E q \in Requests : ApiHangUp(q)
    \/ \E q \in Requests : ApiAborted(q)

SpecLog == Init /\ [][NextLog]_vars

(***************************************************************************)
(* Properties                                                              *)
(***************************************************************************)
Executes == {q \in Requests : q.kind = "execute"}

\* every required field of the body is a non-empty string
AllRequiredPresent(b) == \A k \in RequiredFields : b[k] \notin {Undef, ""}

\* C1: in every reachable state the table holds at most one row per fqdn: a
\* save or an execute for an fqdn that has a row updates that row and adds none.
C1_OneRowPerFqdn ==
    \A i, j \in 1..Len(store) : store[i].fqdn = store[j].fqdn => i = j

\* a save and an execute for the same fqdn have both been applied, and the
\* table holds a single row for it
C1_Witness ==
    \E q1, q2 \in Requests :
        /\ q1.kind = "save" /\ q1.db = "ok"
        /\ q2.kind = "execute" /\ q2.db = "ok"
        /\ q1.body.fqdn = q2.body.fqdn
        /\ Len(RowsOf(store, q1.body.fqdn)) = 1

\* C2: for every execute_query request at most one response is sent, no
\* listener calls res.json a second time, and the process keeps running.
C2_RespondsOnce ==
    /\ alive
    /\ \A q \in Executes : q.attempts <= 1 /\ Len(q.resp) <= 1

\* C3: once the outbound request of an execute_query has been issued, the
\* upsert of its entry has been applied to the table.
C3_PersistBeforeProxy ==
    \A q \in Executes : q.issued > 0 => q.db = "ok"

\* C4: an execute_query whose save failed in the store still issues its
\* outbound request, and its response is the one the proxy call decides: 408
\* after a timeout, 500 with the transport error after an error, 200 or the
\* parse failure after the end of the response, none while the call is open;
\* the store's error is never answered.
C4_SaveFailureSwallowed ==
    \A q \in Executes :
        q.db = "failed" =>
            /\ q.issued = 1
            /\ \A i \in 1..Len(q.resp) : q.resp[i].body # StoreError
            /\ CASE q.timedOut ->
                      q.resp = <<[status |-> 408, body |-> [error |-> "Request timeout"]]>>
                 [] q.up = "errored" /\ ~q.timedOut ->
                      q.resp = <<[status |-> 500, body |-> [error |-> "ECONNRESET"]]>>
                 [] q.up = "ended" ->
                      /\ Len(q.resp) = 1
                      /\ q.resp[1].status = (IF IsJSON(q.data) THEN 200 ELSE 500)
                      /\ DOMAIN q.resp[1].body =
                            (IF IsJSON(q.data) THEN {"json"} ELSE {"error", "raw"})
                 [] OTHER -> q.resp = <<>>

\* the save of an execute_query failed and the request was answered 200
C4_Witness ==
    \E q \in Executes : q.db = "failed" /\ q.resp # <<>> /\ q.resp[1].status = 200

\* C5: an execute_query with fqdn, user_mail, user_password or parameters
\* absent or empty is answered 400 and issues no outbound request.
C5_MissingFieldNoCall ==
    \A q \in Executes :
        ~AllRequiredPresent(q.body) =>
            /\ Len(q.resp) = 1 /\ q.resp[1].status = 400
            /\ q.issued = 0
            /\ q.up = "none"

\* a request without user_password has been answered 400 next to one that
\* passed validation and was issued
C5_Witness ==
    \E q1, q2 \in Executes :
        /\ q1.body.user_password = Undef /\ q1.body.fqdn = "a.com"
        /\ q1.resp # <<>> /\ q1.resp[1].status = 400
        /\ q2.issued = 1

\* C6: once the timeout of an execute_query has fired, the connection is gone
\* and the response the client has is 408, never 500 or 200.
C6_TimeoutIs408 ==
    \A q \in Executes :
        q.timedOut =>
            /\ q.up \in {"hangup", "destroyed", "errored"}
            /\ q.rem = <<>>
            /\ q.resp = <<[status |-> 408, body |-> [error |-> "Request timeout"]]>>

\* the timeout fired before any response of the upstream host, and the socket
\* hang up that follows has been delivered too
C6_Witness ==
    \E q \in Executes : q.timedOut /\ q.up = "errored" /\ q.resp[1].status = 408

FqdnsOf(s) == {s[i].fqdn : i \in 1..Len(s)}

\* this step is the completion of the statement of request q, which succeeded
\* and left the request as q2
Completes(q, q2, kind) ==
    /\ q.kind = kind /\ q.db = "pending"
    /\ q2.kind = kind /\ q2.db = "ok" /\ q2.body = q.body
    /\ reqs' = Stepped(q, q2)

\* C8: a successful save_query_data inserts the entry when its fqdn has no
\* row, and otherwise overwrites every field but created_at, which stays, and
\* sets last_updated to the current time, not earlier than before; either way
\* the table then holds exactly one row for the fqdn, with the saved comments,
\* and the rows of other fqdns are as before.
C8_SaveIsUpsert ==
    [][\A q \in Requests, q2 \in BagToSet(reqs') :
          Completes(q, q2, "save") =>
              LET f == q.body.fqdn
                  new == RowsOf(store', f)
              IN  /\ Len(new) = 1
                  /\ \A k \in UserFields :
                        new[1][k] = (IF q.body[k] = Undef THEN Null ELSE q.body[k])
                  /\ new[1].last_updated = clock
                  /\ IF HasRow(store, f)
                     THEN /\ new[1].created_at = RowsOf(store, f)[1].created_at
                          /\ new[1].last_updated >= RowsOf(store, f)[1].last_updated
                          /\ Len(store') = Len(store)
                     ELSE /\ new[1].created_at = clock
                          /\ Len(store') = Len(store) + 1
                  /\ \A g \in FqdnsOf(store) \ {f} : RowsOf(store', g) = RowsOf(store, g)
                  /\ q2.resp = <<[status |-> 200,
                                  body |-> [message |-> "Query data saved successfully"]]>>
      ]_vars

\* two saves of a.com with different comments have been applied at different
\* times: one row, created by the first, holding the comments of the second
C8_Witness ==
    /\ \E q1, q2 \in Requests :
          /\ q1.kind = "save" /\ q1.db = "ok" /\ q1.body.fqdn = "a.com"
          /\ q2.kind = "save" /\ q2.db = "ok" /\ q2.body.fqdn = "a.com"
          /\ q1.body.comments = "c1" /\ q2.body.comments = "c2"
    /\ Len(store) = 1
    /\ store[1].fqdn = "a.com"
    /\ store[1].comments = "c2"
    /\ store[1].user_mail = "m2"
    /\ store[1].created_at < store[1].last_updated

\* C9: a delete that the store carries out is answered 404 and leaves the
\* table as it was when the fqdn has no row; when it has one it is answered
\* 200 and removes that row and no other, so that a get of the fqdn in the
\* table it leaves answers the stub.
C9_DeleteRemovesOneRow ==
    [][\A q \in Requests, q2 \in BagToSet(reqs') :
          Completes(q, q2, "delete") =>
              LET f == q.body.fqdn
              IN  IF ~HasRow(store, f)
                  THEN /\ q2.resp = <<[status |-> 404, body |-> [error |-> "FQDN not found"]]>>
                       /\ store' = store
                  ELSE /\ Len(q2.resp) = 1 /\ q2.resp[1].status = 200
                       /\ ~HasRow(store', f)
                       /\ Len(store') = Len(store) - 1
                       /\ \A g \in FqdnsOf(store) \ {f} : RowsOf(store', g) = RowsOf(store, g)
                       /\ GetBody(store', f) =
                             [fqdn |-> f, user_mail |-> "", user_password |-> "",
                              start_date |-> "", end_date |-> "", parameters |-> "",
                              comments |-> ""]
      ]_vars

\* a delete of a.com was answered 200 and the row of b.com is still there
C9_Witness ==
    /\ \E q \in Requests :
          /\ q.kind = "delete" /\ q.body.fqdn = "a.com" /\ q.db = "ok"
          /\ q.resp[1].status = 200
    /\ ~HasRow(store, "a.com")
    /\ HasRow(store, "b.com")

\* C10: a get that the store carries out leaves the table as it was and is
\* answered 200: with the row of the fqdn when there is one, and otherwise
\* with an entry that echoes the fqdn and whose other fields (user_mail,
\* user_password, start_date, end_date, parameters, comments) are all "".
C10_GetRowOrStub ==
    [][\A q \in Requests, q2 \in BagToSet(reqs') :
          Completes(q, q2, "get") =>
              LET f == q.body.fqdn
                  body == q2.resp[1].body
              IN  /\ store' = store
                  /\ Len(q2.resp) = 1
                  /\ q2.resp[1].status = 200
                  /\ body.fqdn = f
                  /\ IF HasRow(store, f)
                     THEN \E i \in 1..Len(store) : store[i].fqdn = f /\ body = store[i]
                     ELSE /\ UserFields \subseteq DOMAIN body
                          /\ \A k \in DOMAIN body \ {"fqdn"} : body[k] = ""
      ]_vars

\* one get has been answered with the stub of b.com and another with the
\* stored row of a.com
C10_Witness ==
    \E q1, q2 \in Requests :
        /\ q1.kind = "get" /\ q1.db = "ok" /\ q1.body.fqdn = "b.com"
        /\ q1.resp[1].body.user_mail = "" /\ q1.resp[1].body.fqdn = "b.com"
        /\ q2.kind = "get" /\ q2.db = "ok" /\ q2.body.fqdn = "a.com"
        /\ q2.resp[1].body = OldRow

\* C11: a list that the store carries out answers 200 with exactly the fqdns
\* of the table, each once, in ascending byte order (the empty sequence for an
\* empty table), and leaves the table as it was.
C11_ListSorted ==
    [][\A q \in Requests, q2 \in BagToSet(reqs') :
          Completes(q, q2, "fqdns") =>
              LET out == q2.resp[1].body.rows
              IN  /\ store' = store
                  /\ Len(q2.resp) = 1 /\ q2.resp[1].status = 200
                  /\ {out[i].fqdn : i \in 1..Len(out)} = FqdnsOf(store)
                  /\ Len(out) = Len(store)
                  /\ \A i, j \in 1..Len(out) :
                        i < j => BytesLess(CharCodes[out[i].fqdn], CharCodes[out[j].fqdn])
                  /\ \A i \in 1..Len(out) : DOMAIN out[i] = {"fqdn"}
                  /\ (store = <<>> => out = <<>>)
      ]_vars

\* the table holds b.com, a.com and a.co in that order of insertion, and a
\* list has answered a.co, a.com, b.com
C11_Witness ==
    /\ Len(store) = 3
    /\ store[1].fqdn = "b.com" /\ store[2].fqdn = "a.com" /\ store[3].fqdn = "a.co"
    /\ \E q \in Requests :
          /\ q.kind = "fqdns" /\ q.db = "ok"
          /\ q.resp[1].body.rows = <<[fqdn |-> "a.co"], [fqdn |-> "a.com"], [fqdn |-> "b.com"]>>

\* C12: a save_query_data whose fqdn is empty or absent is answered 400 at
\* once, the table is the same after the request as before it, and no
\* statement is ever run for it.
C12_EmptyFqdnRejected ==
    [][\A q2 \in BagToSet(reqs') :
          (q2.kind = "save" /\ q2.body.fqdn \in {Undef, ""}) =>
              /\ q2.resp = <<[status |-> 400, body |-> [error |-> "FQDN is required"]]>>
              /\ q2.db = "none"
              /\ (CopiesIn(q2, reqs') > CopiesIn(q2, reqs) => store' = store)
      ]_vars

\* saves with an empty and with an absent fqdn have been answered 400 and the
\* table still holds the two rows it started with
C12_Witness ==
    /\ store = <<OldRowB, OldRow>>
    /\ \E q1, q2 \in Requests :
          /\ q1.kind = "save" /\ q1.body.fqdn = "" /\ q1.resp[1].status = 400
          /\ q2.kind = "save" /\ q2.body.fqdn = Undef /\ q2.resp[1].status = 400

\* the epoch milliseconds of the date strings that parse
EpochOf == (DateA :> 100) @@ (DateB :> 300)

\* the text is a JSON array
IsArrayText(d) == IsJSON(d) /\ Len(d) >= 2 /\ d[1].k = "["

\* the elements of an array text
ElemsOf(d) == SubSeq(d, 2, Len(d) - 1)

\* the execute_query requests whose upstream response has completed
Ended == {q \in Executes : q.up = "ended"}

\* out is the subsequence of es at the indices kept, in their order
IsSubsequenceAt(out, es, kept) ==
    /\ Len(out) = Cardinality(kept)
    /\ \A i \in kept : out[Cardinality({k \in kept : k <= i})] = es[i]

\* C13: when the upstream response completes with a JSON array and both
\* start_date and end_date are non-empty, the answer is 200 with exactly the
\* elements whose timestamp_epoch_ms is a number with start <= ts <= end, in
\* their original order; every other element is dropped.
C13_RangeFilter ==
    \A q \in Ended :
        (/\ IsArrayText(q.data)
         /\ q.body.start_date \notin {Undef, ""}
         /\ q.body.end_date \notin {Undef, ""}) =>
            LET es == ElemsOf(q.data)
                kept == {i \in 1..Len(es) :
                            /\ es[i].tsType = "number"
                            /\ q.body.start_date \in DOMAIN EpochOf
                            /\ q.body.end_date \in DOMAIN EpochOf
                            /\ EpochOf[q.body.start_date] <= es[i].ts
                            /\ es[i].ts <= EpochOf[q.body.end_date]}
            IN  /\ Len(q.resp) = 1
                /\ q.resp[1].status = 200
                /\ DOMAIN q.resp[1].body = {"json"}
                /\ q.resp[1].body.json.isArray
                /\ IsSubsequenceAt(q.resp[1].body.json.elems, es, kept)

\* C14: when the parsed upstream value is not an array, or start_date or
\* end_date is empty or absent, the answer is 200 with the parsed value as it
\* is: no element removed, added or moved.
C14_Unfiltered ==
    \A q \in Ended :
        (/\ IsJSON(q.data)
         /\ \/ ~IsArrayText(q.data)
            \/ q.body.start_date \in {Undef, ""}
            \/ q.body.end_date \in {Undef, ""}) =>
            q.resp = <<[status |-> 200,
                        body |-> [json |-> IF IsArrayText(q.data)
                                           THEN [isArray |-> TRUE, elems |-> ElemsOf(q.data)]
                                           ELSE [isArray |-> FALSE, elems |-> q.data]]]>>

\* an array with elements outside the range and without a number was answered
\* whole because end_date is empty
C14_Witness ==
    \E q \in Ended :
        /\ q.body.start_date = DateA /\ q.body.end_date = ""
        /\ q.data = <<LB, Obj(301), ObjNoTs, RB>>
        /\ q.resp[1].body.json.elems = <<Obj(301), ObjNoTs>>

\* C15: every chunk of the upstream body is appended to the data accumulated
\* so far, which starts empty, and when the response completes with data that
\* is not valid JSON the answer is 500 with an error and with raw equal to
\* the data accumulated.
C15_ParseErrorCarriesRaw ==
    [][\A q \in Executes, q2 \in BagToSet(reqs') :
          (reqs' = Stepped(q, q2) /\ q2 # q) =>
              /\ (q.up = "connecting" /\ q2.up = "receiving" => q2.data = <<>>)
              /\ (q.up = "receiving" /\ q2.up = "receiving"
                      /\ (q2.data # q.data \/ q2.rem # q.rem) =>
                     /\ q.rem # <<>>
                     /\ q2.data = q.data \o Head(q.rem)
                     /\ q2.rem = Tail(q.rem))
              /\ (q.up = "receiving" /\ q2.up = "ended" /\ ~IsJSON(q.data) =>
                     q2.resp = <<[status |-> 500,
                                  body |-> [error |-> "Failed to parse API response",
                                            raw |-> q.data]]>>)
      ]_vars

\* a body that came in two chunks and is not JSON was answered 500 with both
\* chunks in raw
C15_Witness ==
    \E q \in Ended :
        /\ q.resp[1].status = 500
        /\ q.resp[1].body.raw = <<LB, Obj(50), Junk>>

\* C20: when the upstream body is a JSON array, both bounds are non-empty and
\* one of them does not parse as a date, the answer is 200 with the empty
\* array.
C20_InvalidBoundDropsAll ==
    \A q \in Ended :
        (/\ IsArrayText(q.data)
         /\ q.body.start_date \notin {Undef, ""}
         /\ q.body.end_date \notin {Undef, ""}
         /\ \/ q.body.start_date \notin DOMAIN EpochOf
            \/ q.body.end_date \notin DOMAIN EpochOf) =>
            q.resp = <<[status |-> 200, body |-> [json |-> [isArray |-> TRUE, elems |-> <<>>]]]>>

\* C18: every execute_query request that passes validation eventually has a
\* response, whatever the upstream host does.
C18_EventuallyAnswered ==
    <>[](\A q \in Executes : AllRequiredPresent(q.body) => q.resp # <<>>)

\* C19: the save of an execute_query, when it succeeds, leaves a row for its
\* fqdn, created at the current time if the table held none: so a row that a
\* delete removed while the save was pending is there again afterwards.
C19_ExecuteRecreatesRow ==
    [][\A q \in Requests, q2 \in BagToSet(reqs') :
          Completes(q, q2, "execute") =>
              /\ Len(RowsOf(store', q.body.fqdn)) = 1
              /\ (~HasRow(store, q.body.fqdn) =>
                     RowsOf(store', q.body.fqdn)[1].created_at = clock)
      ]_vars

\* a delete of a.com was answered 200 while the save of an execute_query for
\* a.com was pending, both requests have finished, and the table holds a row
\* for a.com again, created after the delete
C19_Witness ==
    \E d \in Requests, e \in Requests :
        /\ d.kind = "delete" /\ d.body.fqdn = "a.com" /\ d.overlap
        /\ d.resp = <<[status |-> 200, body |-> [message |-> "FQDN entry deleted successfully"]]>>
        /\ e.kind = "execute" /\ e.body.fqdn = "a.com" /\ e.db = "ok" /\ e.resp # <<>>
        /\ Len(RowsOf(store, "a.com")) = 1
        /\ RowsOf(store, "a.com")[1].created_at > 0
        /\ RowsOf(store, "a.com")[1].user_mail = e.body.user_mail

\* the values a sequence holds
Range(seq) == {seq[i] : i \in 1..Len(seq)}

\* how far the handling of a request has come
Progress(q) == <<q.kind, q.db, q.up, q.rem, q.data, q.timedOut, q.attempts, q.issued>>

\* the bodies of the error responses of a request
ErrorBodies(q) == {q.resp[i].body : i \in {j \in 1..Len(q.resp) : q.resp[j].status >= 400}}

\* C16: no log line and no error body of a request holds its user_password,
\* in clear or inside the Basic Authorization header built from it; two
\* requests that differ in user_password only and have come equally far have
\* written the same lines and got the same error bodies.
C16_NoCredentialInLog ==
    \A q \in Requests :
        /\ Truthy(q.body.user_password) =>
               \A l \in q.wrote :
                   /\ q.body.user_password \notin Range(l.vals)
                   /\ l.auth # Basic(q.body.user_mail, q.body.user_password)
        /\ \A r \in Requests :
               (/\ Progress(r) = Progress(q)
                /\ [r.body EXCEPT !.user_password = ""] = [q.body EXCEPT !.user_password = ""]) =>
                   r.wrote = q.wrote /\ ErrorBodies(r) = ErrorBodies(q)

\* C17: a health request is answered 200 with database Connected when the
\* connection is open, and 500 with status ERROR and database Disconnected
\* when it failed to open or is closed.
C17_HealthReflectsStore ==
    [][\A q2 \in BagToSet(reqs') :
          (q2.kind = "health" /\ CopiesIn(q2, reqs') > CopiesIn(q2, reqs)) =>
              /\ Len(q2.resp) = 1
              /\ IF dbState = "open"
                 THEN q2.resp[1].status = 200 /\ q2.resp[1].body.database = "Connected"
                 ELSE /\ q2.resp[1].status = 500
                      /\ q2.resp[1].body.status = "ERROR"
                      /\ q2.resp[1].body.database = "Disconnected"
      ]_vars

====
